---- MODULE Spec2Model ----
(***************************************************************************)
(* Model of app.py, the invoice maker: the free-text item parser           *)
(* (parse_items), the SQLite store (init_db, migrate_db), the auth gate    *)
(* (owner_setup, login, staff_required) and the invoice routes.            *)
(*                                                                         *)
(* Text is a sequence of one-character strings.  Amounts are exact decimal *)
(* fixed-point integers with FracDigits fractional digits.                 *)
(***************************************************************************)
EXTENDS Integers, Sequences, FiniteSets, TLC

VARIABLES
    raw,          \* the text handed to parse_items
    parsed,       \* <<>> before the call, <<result>> after it
    inv_schema,   \* invoices table: [cols, unique], as init_db/migrate_db left it
    HAS_USER_ID_COL, \* the module global computed at import
    users,        \* rows of the users table, in id order
    invoices,     \* rows of the invoices table, in id order
    session,      \* the session cookie of every client
    inflight,     \* owner_setup requests between their SELECT and their INSERT
    response,     \* the last response sent, with the request it answers
    pdf           \* the call of invoice_pdf_bytes under way: its arguments,
                  \* its locals and the draw calls made on the canvas so far

pvars == <<raw, parsed>>
dbvars == <<inv_schema, HAS_USER_ID_COL, users, invoices>>
webvars == <<inv_schema, HAS_USER_ID_COL, users, invoices, session, inflight, response>>
vars == <<raw, parsed, inv_schema, HAS_USER_ID_COL, users, invoices, session,
          inflight, response, pdf>>

\* ------------------------------------------------------------------ bounds
\* longest input text given to the parser in ParseSpec
MaxRawLen == 4
\* fractional digits kept by the fixed-point amounts
FracDigits == 3
\* most rows the invoices table grows to
MaxInvoices == 3

\* ------------------------------------------------------------ text helpers
Digits == {"0", "1", "2", "3", "4", "5", "6", "7", "8", "9"}

\* whitespace that can occur inside one line
Spaces == {" ", "\t"}

\* the characters str.splitlines() breaks on
LineBreaks == {"\n", "\r"}

\* the characters of .strip(" -:|")
SepChars == {" ", "-", ":", "|"}

\* the alphabet the parser inputs are drawn from
Alphabet == {"a", "5", "$", " ", "-", "\n", ".", ","}

RECURSIVE TextsOfLen(_)
TextsOfLen(n) ==
    IF n = 0 THEN {<<>>}
    ELSE {Append(t, c) : t \in TextsOfLen(n - 1), c \in Alphabet}

Texts == UNION {TextsOfLen(n) : n \in 0..MaxRawLen}

\* one optional character of cs at position p: the position after it
SkipOpt(s, p, cs) == IF p <= Len(s) /\ s[p] \in cs THEN p + 1 ELSE p

\* the greedy run of characters of cs from position p: the position after it
RECURSIVE SkipWhile(_, _, _)
SkipWhile(s, p, cs) ==
    IF p <= Len(s) /\ s[p] \in cs THEN SkipWhile(s, p + 1, cs) ELSE p

RECURSIVE LStrip(_, _)
LStrip(s, cs) ==
    IF s # <<>> /\ Head(s) \in cs THEN LStrip(Tail(s), cs) ELSE s

RECURSIVE RStrip(_, _)
RStrip(s, cs) ==
    IF s # <<>> /\ s[Len(s)] \in cs THEN RStrip(SubSeq(s, 1, Len(s) - 1), cs)
    ELSE s

\* str.strip(chars)
Strip(s, cs) == RStrip(LStrip(s, cs), cs)

\* str.replace(c, "") for a one-character c
Remove(s, c) == SelectSeq(s, LAMBDA x : x # c)

\* str.splitlines(): a trailing line break opens no further line
RECURSIVE SplitLinesFrom(_, _, _)
SplitLinesFrom(s, i, cur) ==
    IF i > Len(s) THEN (IF cur = <<>> THEN <<>> ELSE <<cur>>)
    ELSE IF s[i] \in LineBreaks
         THEN <<cur>> \o SplitLinesFrom(s, i + 1, <<>>)
         ELSE SplitLinesFrom(s, i + 1, Append(cur, s[i]))

SplitLines(s) == SplitLinesFrom(s, 1, <<>>)

\* str.find(sub): the lowest 0-based index where sub occurs, -1 if none
RECURSIVE FindFrom(_, _, _)
FindFrom(s, sub, i) ==
    IF i > Len(s) - Len(sub) THEN -1
    ELSE IF SubSeq(s, i + 1, i + Len(sub)) = sub THEN i
    ELSE FindFrom(s, sub, i + 1)

Find(s, sub) == FindFrom(s, sub, 0)

\* str.rfind(sub): the highest 0-based index where sub occurs, -1 if none
RECURSIVE RFindFrom(_, _, _)
RFindFrom(s, sub, i) ==
    IF i < 0 THEN -1
    ELSE IF SubSeq(s, i + 1, i + Len(sub)) = sub THEN i
    ELSE RFindFrom(s, sub, i - 1)

RFind(s, sub) == RFindFrom(s, sub, Len(s) - Len(sub))

\* ---------------------------------------------------------------- numbers
RECURSIVE Pow10(_)
Pow10(n) == IF n = 0 THEN 1 ELSE 10 * Pow10(n - 1)

DigitVal(c) == CHOOSE n \in 0..9 : <<"0", "1", "2", "3", "4", "5", "6", "7", "8", "9">>[n + 1] = c

\* value of a digit string read as an integer
RECURSIVE IntOf(_)
IntOf(ds) ==
    IF ds = <<>> THEN 0
    ELSE 10 * IntOf(SubSeq(ds, 1, Len(ds) - 1)) + DigitVal(ds[Len(ds)])

\* value of a digit string read as a fraction, in units of 10^-FracDigits
RECURSIVE FracOf(_, _)
FracOf(ds, k) ==
    IF ds = <<>> \/ k = 0 THEN 0
    ELSE DigitVal(Head(ds)) * Pow10(k - 1) + FracOf(Tail(ds), k - 1)

\* float(text): [sign] digits [. digits]; anything else is a ValueError
float(s) ==
    LET b == SkipOpt(s, 1, {"-", "+"})
        d == SkipWhile(s, b, Digits)
        e == SkipOpt(s, d, {"."})
        f == SkipWhile(s, e, Digits)
        mag == IntOf(SubSeq(s, b, d - 1)) * Pow10(FracDigits)
                 + FracOf(SubSeq(s, e, f - 1), FracDigits)
    IN IF (d > b \/ f > e) /\ f = Len(s) + 1
       THEN [ok |-> TRUE, value |-> IF b > 1 /\ s[1] = "-" THEN -mag ELSE mag]
       ELSE [ok |-> FALSE, value |-> 0]

\* ------------------------------------------------------------ item parser
\* one match of [-+]?\$?\s*\d[\d,]*\.?\d* starting at position p:
\* the position after the match, 0 when there is no match at p
MatchEnd(line, p) ==
    LET p1 == SkipOpt(line, p, {"-", "+"})
        p2 == SkipOpt(line, p1, {"$"})
        p3 == SkipWhile(line, p2, Spaces)
    IN IF p3 <= Len(line) /\ line[p3] \in Digits
       THEN LET p4 == SkipWhile(line, p3 + 1, Digits \cup {","})
                p5 == SkipOpt(line, p4, {"."})
            IN SkipWhile(line, p5, Digits)
       ELSE 0

\* re.findall: the non-overlapping matches, leftmost first
RECURSIVE FindAllFrom(_, _)
FindAllFrom(line, p) ==
    IF p > Len(line) THEN <<>>
    ELSE LET e == MatchEnd(line, p)
         IN IF e = 0 THEN FindAllFrom(line, p + 1)
            ELSE <<SubSeq(line, p, e - 1)>> \o FindAllFrom(line, e)

FindAll(line) == FindAllFrom(line, 1)

\* the body of the loop of parse_items for one stripped, non-blank line
ParseLine(line) ==
    LET nums == FindAll(line)
    IN IF nums # <<>>
       THEN LET last == nums[Len(nums)]
                cleaned == Strip(Remove(Remove(last, "$"), ","), Spaces)
                fl == float(cleaned)
                unit_price == IF fl.ok THEN fl.value ELSE 0
                idx == RFind(line, last)
                cut == Strip(SubSeq(line, 1, idx)
                               \o SubSeq(line, idx + Len(last) + 1, Len(line)),
                             SepChars)
                desc == IF cut = <<>> THEN line ELSE cut
            IN [desc |-> desc, qty |-> 1, unit_price |-> unit_price]
       ELSE [desc |-> line, qty |-> 1, unit_price |-> 0]

\* the loop that also skips the lines holding no number
RECURSIVE ParseLinesNumbered(_)
ParseLinesNumbered(lines) ==
    IF lines = <<>> THEN <<>>
    ELSE LET line == Strip(Head(lines), Spaces)
         IN IF line = <<>> \/ FindAll(line) = <<>>
            THEN ParseLinesNumbered(Tail(lines))
            ELSE <<ParseLine(line)>> \o ParseLinesNumbered(Tail(lines))

RECURSIVE ParseLines(_)
ParseLines(lines) ==
    IF lines = <<>> THEN <<>>
    ELSE LET line == Strip(Head(lines), Spaces)
         IN IF line = <<>> THEN ParseLines(Tail(lines))
            ELSE <<ParseLine(line)>> \o ParseLines(Tail(lines))

\* parse_items(raw): the items, or the ValueError of an empty result
parse_items(text) ==
    LET items == ParseLines(SplitLines(text))
    IN IF items = <<>>
       THEN [ok |-> FALSE, items |-> <<>>, error |-> "Add at least 1 item line."]
       ELSE [ok |-> TRUE, items |-> items, error |-> ""]

\* -------------------------------------------- lines and occurrences
\* positions of the characters that are neither whitespace nor line breaks
Ink(text) == {i \in 1..Len(text) : text[i] \notin Spaces \cup LineBreaks}

\* positions i <= j lie on one line: no line break from i up to j
SameLine(text, i, j) == \A k \in i..j : text[k] \notin LineBreaks

\* the first and the last inked position of every non-blank line
LineStarts(text) ==
    {i \in Ink(text) : \A j \in Ink(text) : j < i => ~SameLine(text, j, i)}

LineEnd(text, i) ==
    CHOOSE j \in Ink(text) :
        /\ j >= i /\ SameLine(text, i, j)
        /\ \A k \in Ink(text) : (k >= i /\ SameLine(text, i, k)) => k <= j

RECURSIVE Ascending(_)
Ascending(S) ==
    IF S = {} THEN <<>>
    ELSE LET m == CHOOSE x \in S : \A y \in S : x <= y
         IN <<m>> \o Ascending(S \ {m})

\* the non-blank lines of a text, each without its surrounding whitespace,
\* in input order
NonBlankLines(text) ==
    LET starts == Ascending(LineStarts(text))
    IN [k \in 1..Len(starts) |->
           SubSeq(text, starts[k], LineEnd(text, starts[k]))]

\* the 0-based indices at which sub occurs in line
Occurrences(line, sub) ==
    {i \in 0..(Len(line) - Len(sub)) : SubSeq(line, i + 1, i + Len(sub)) = sub}

MinOf(S) == CHOOSE x \in S : \A y \in S : x <= y
MaxOf(S) == CHOOSE x \in S : \A y \in S : x >= y

\* the line without the occurrence of sub at index i, trimmed of separators,
\* or the whole line when nothing is left
DescWithout(line, sub, i) ==
    LET cut == Strip(SubSeq(line, 1, i)
                       \o SubSeq(line, i + Len(sub) + 1, Len(line)), SepChars)
    IN IF cut = <<>> THEN line ELSE cut

\* the price a numeric match stands for: symbol and separators dropped,
\* 0 when what is left is no number
PriceOf(m) ==
    LET fl == float(Strip(Remove(Remove(m, "$"), ","), Spaces))
    IN IF fl.ok THEN fl.value ELSE 0

\* ------------------------------------------------------------- database
\* A column value that may be NULL is <<>> (NULL) or <<v>>.
\* Of the invoices columns the model keeps those a route decides on; the
\* other free-text columns (client_email, currency, payment_methods, notes,
\* created_at) are stored as given and change no decision.
FreshInvoiceCols ==
    {"id", "invoice_number", "client_name", "client_address", "issue_date",
     "due_date", "items_json", "total_amount", "created_by_user_id",
     "view_token"}

\* json.dumps / json.loads of an item list, as a sequence of JSON tokens
RECURSIVE json_dumps_items(_)
json_dumps_items(items) ==
    IF items = <<>> THEN <<>>
    ELSE <<"{", "desc", Head(items).desc, "qty", Head(items).qty,
           "unit_price", Head(items).unit_price, "}">>
         \o json_dumps_items(Tail(items))

json_dumps(items) == <<"[">> \o json_dumps_items(items) \o <<"]">>

RECURSIVE json_loads_items(_, _)
json_loads_items(toks, p) ==
    IF toks[p] = "]" THEN <<>>
    ELSE <<[desc |-> toks[p + 2], qty |-> toks[p + 4],
            unit_price |-> toks[p + 6]]>>
         \o json_loads_items(toks, p + 8)

json_loads(toks) == json_loads_items(toks, 2)

\* the database file found at start-up: none, or one left by an earlier
\* version of the schema (no view_token column, a user_id column, users
\* provisioned outside this program)
NoFile ==
    [has_tables |-> FALSE,
     inv_cols |-> {}, inv_unique |-> {}, invoices |-> <<>>,
     user_cols |-> {}, users |-> <<>>]

\* sha-style credential: generate_password_hash / check_password_hash
generate_password_hash(p) == <<"pbkdf2">> \o p
check_password_hash(h, p) == h = generate_password_hash(p)

PwGood == <<"s", "e", "c", "r", "e", "t">>
PwShort == <<"s", "e", "c">>
PwOther == <<"s", "e", "c", "r", "e", "t", "2">>

LegacyFile ==
    [has_tables |-> TRUE,
     inv_cols |-> {"id", "user_id", "invoice_number", "client_name",
                   "issue_date", "due_date"},
     inv_unique |-> {},
     invoices |-> <<[id |-> 1, user_id |-> <<1>>,
                     invoice_number |-> <<"o", "l", "d">>,
                     client_name |-> <<"c">>,
                     issue_date |-> <<"d">>, due_date |-> <<"d">>]>>,
     user_cols |-> {"id", "username", "password_hash", "role"},
     users |-> <<[id |-> 1, username |-> <<"b", "o", "b">>,
                  password_hash |-> generate_password_hash(PwGood),
                  role |-> "client"]>>]

DbFiles == {NoFile, LegacyFile}

\* init_db: CREATE TABLE IF NOT EXISTS leaves an existing table as it is
init_db(f) ==
    IF f.has_tables THEN f
    ELSE [has_tables |-> TRUE,
          inv_cols |-> FreshInvoiceCols, inv_unique |-> {"view_token"},
          invoices |-> <<>>,
          user_cols |-> {"id", "username", "password_hash", "role"},
          users |-> <<>>]

\* the value ALTER TABLE ... ADD COLUMN gives the existing rows
ColumnDefault(col) ==
    CASE col = "items_json" -> json_dumps(<<>>)
      [] col = "total_amount" -> 0
      [] OTHER -> <<>>

\* add_col: the column is added, without constraint, when it is missing
add_col(f, col) ==
    IF col \in f.inv_cols THEN f
    ELSE [f EXCEPT !.inv_cols = @ \cup {col},
                   !.invoices = [i \in DOMAIN @ |->
                       [c \in DOMAIN @[i] \cup {col} |->
                           IF c = col THEN ColumnDefault(col) ELSE @[i][c]]]]

\* the users part of migrate_db: a missing role column defaults to 'owner'
add_role(f) ==
    IF "role" \in f.user_cols THEN f
    ELSE [f EXCEPT !.user_cols = @ \cup {"role"},
                   !.users = [i \in DOMAIN @ |->
                       [c \in DOMAIN @[i] \cup {"role"} |->
                           IF c = "role" THEN "owner" ELSE @[i][c]]]]

\* migrate_db: the add_col calls, in order, then the users columns
migrate_db(f) ==
    add_role(add_col(add_col(add_col(add_col(add_col(f,
        "client_address"), "items_json"), "total_amount"),
        "created_by_user_id"), "view_token"))

\* invoices_table_has_column
invoices_table_has_column(f, col_name) == col_name \in f.inv_cols

\* row_get(row, key, default)
row_get(row, key, default) ==
    IF key \notin DOMAIN row THEN default
    ELSE IF row[key] = <<>> THEN default ELSE row[key]

\* the existence check asking for another role
any_admin_exists(us) == \E i \in DOMAIN us : us[i].role = "admin"

\* any_owner_exists: SELECT 1 FROM users WHERE role='owner' LIMIT 1
any_owner_exists(us) == \E i \in DOMAIN us : us[i].role = "owner"

\* ------------------------------------------------------------ web routes
Clients == {"c1", "c2"}

OWNER_SETUP_KEY == "CHANGE-ME-SETUP-KEY"

\* the values the token generator can return
Tokens == {"t1", "t2"}

EmptySession == [user_id |-> <<>>, username |-> <<>>, role |-> ""]

\* what a form field can hold
ItemInputs ==
    {<<>>,
     <<" ", "\n", " ">>,
     <<"a", " ", "5", "\n", "b", " ", "-", "2", ".", "5">>}

Bob == <<"b", "o", "b">>
Ann == <<"a", "n", "n">>

\* an owner-setup form that passes every check
GoodSetup ==
    [setup_key |-> OWNER_SETUP_KEY, username |-> <<" ">> \o Bob \o <<" ">>,
     password |-> PwGood, password2 |-> PwGood]

\* the owner-setup forms submitted: two good ones, and one per check failed
SetupForms ==
    {GoodSetup,
     [GoodSetup EXCEPT !.username = Ann],
     [GoodSetup EXCEPT !.setup_key = "wrong"],
     [GoodSetup EXCEPT !.username = <<" ", "a", "b", " ">>],
     [GoodSetup EXCEPT !.password = PwShort, !.password2 = PwShort],
     [GoodSetup EXCEPT !.password2 = PwOther]}

\* the ids and tokens a lookup can ask for
IdInputs == 0..MaxInvoices
TokenInputs == Tokens \cup {"t0"}

\* a response: ran says whether the route's handler was executed, found is
\* "hit" or "miss" when the handler looked an invoice up and "" otherwise
Resp(c, route, method, status, body, found, ran) ==
    [client |-> c, route |-> route, method |-> method, status |-> status,
     body |-> body, found |-> found, ran |-> ran]

\* the wrapper without its role check
staff_required_any_role(s) ==
    IF s.user_id = <<>> THEN "redirect" ELSE "call"

\* staff_required: what the wrapper does with the session
staff_required(s) ==
    IF s.user_id = <<>> THEN "redirect"
    ELSE IF s.role \notin {"owner", "employee"} THEN "forbidden"
    ELSE "call"

\* the response of the wrapper when it does not call the handler
Refused(c, route, method) ==
    IF staff_required(session[c]) = "redirect"
    THEN Resp(c, route, method, 302, "/login", "", FALSE)
    ELSE Resp(c, route, method, 403, "No access", "", FALSE)

\* SELECT * FROM invoices WHERE id=? / WHERE view_token=? : fetchone
ById(id) == SelectSeq(invoices, LAMBDA r : r.id = id)
ByToken(token) == SelectSeq(invoices, LAMBDA r : r.view_token = <<token>>)

\* the sum that leaves the last item out
RECURSIVE SumLineTotalsButLast(_)
SumLineTotalsButLast(items) ==
    IF Len(items) <= 1 THEN 0
    ELSE SumLineTotalsButLast(SubSeq(items, 1, Len(items) - 1))
           + items[Len(items) - 1].qty * items[Len(items) - 1].unit_price

\* sum(float(i["qty"]) * float(i["unit_price"]) for i in items)
RECURSIVE SumLineTotals(_)
SumLineTotals(items) ==
    IF items = <<>> THEN 0
    ELSE SumLineTotals(SubSeq(items, 1, Len(items) - 1))
           + items[Len(items)].qty * items[Len(items)].unit_price

\* the total the loop of invoice_pdf_bytes accumulates, item by item
RECURSIVE PdfTotalFrom(_, _, _)
PdfTotalFrom(items, k, total) ==
    IF k > Len(items) THEN total
    ELSE PdfTotalFrom(items, k + 1, total + items[k].qty * items[k].unit_price)

pdf_total(items) == PdfTotalFrom(items, 1, 0)

home(c) ==
    /\ response' = Resp(c, "home", "GET", 302,
                        IF session[c].user_id # <<>> THEN "/dashboard"
                        ELSE "/login", "", TRUE)
    /\ UNCHANGED <<pdf, raw, parsed, dbvars, session, inflight>>

\* the input check of owner_setup, without the confirmation
BadSetupInputNoConfirm(username, password, password2) ==
    Len(username) < 3 \/ Len(password) < 6

\* the input check of owner_setup
BadSetupInput(username, password, password2) ==
    Len(username) < 3 \/ Len(password) < 6 \/ password # password2

\* owner_setup up to its INSERT: the existence check and the validation
owner_setup(c, method, key, username_in, password, password2) ==
    /\ inflight[c] = <<>>
    /\ LET username == Strip(username_in, Spaces)
       IN IF any_owner_exists(users)
          THEN /\ response' = Resp(c, "owner_setup", method, 200,
                                   "Owner already exists", "", TRUE)
               /\ UNCHANGED inflight
          ELSE IF method = "POST"
          THEN IF key # OWNER_SETUP_KEY
               THEN /\ response' = Resp(c, "owner_setup", method, 200,
                                        "Wrong setup key", "", TRUE)
                    /\ UNCHANGED inflight
               ELSE IF BadSetupInput(username, password, password2)
               THEN /\ response' = Resp(c, "owner_setup", method, 200,
                                        "Bad input", "", TRUE)
                    /\ UNCHANGED inflight
               ELSE /\ inflight' = [inflight EXCEPT ![c] =
                          <<[username |-> username,
                             password_hash |-> generate_password_hash(password)]>>]
                    /\ UNCHANGED response
          ELSE /\ response' = Resp(c, "owner_setup", method, 200,
                                   "Owner Setup", "", TRUE)
               /\ UNCHANGED inflight
    /\ UNCHANGED <<pdf, raw, parsed, dbvars, session>>

\* the INSERT of owner_setup and its redirect; username is UNIQUE
owner_setup_insert(c) ==
    /\ inflight[c] # <<>>
    /\ LET u == inflight[c][1]
       IN IF \E i \in DOMAIN users : users[i].username = u.username
          THEN /\ response' = Resp(c, "owner_setup", "POST", 500,
                                   "IntegrityError", "", TRUE)
               /\ UNCHANGED users
          ELSE /\ users' = Append(users,
                               [id |-> Len(users) + 1,
                                username |-> u.username,
                                password_hash |-> u.password_hash,
                                role |-> "owner"])
               /\ response' = Resp(c, "owner_setup", "POST", 302, "/login",
                                   "", TRUE)
    /\ inflight' = [inflight EXCEPT ![c] = <<>>]
    /\ UNCHANGED <<pdf, raw, parsed, inv_schema, HAS_USER_ID_COL, invoices,
                   session>>

login(c, method, u_in, p) ==
    /\ IF method = "POST"
       THEN LET u == Strip(u_in, Spaces)
                found == SelectSeq(users, LAMBDA r : r.username = u)
            IN IF found = <<>> \/ ~check_password_hash(found[1].password_hash, p)
               THEN /\ response' = Resp(c, "login", method, 200,
                                        "Invalid login", "", TRUE)
                    /\ UNCHANGED session
               ELSE /\ session' = [session EXCEPT ![c] =
                          [user_id |-> <<found[1].id>>,
                           username |-> found[1].username,
                           role |-> found[1].role]]
                    /\ response' = Resp(c, "login", method, 302, "/dashboard",
                                        "", TRUE)
       ELSE /\ response' = Resp(c, "login", method, 200, "Sign In", "", TRUE)
            /\ UNCHANGED session
    /\ UNCHANGED <<pdf, raw, parsed, dbvars, inflight>>

logout(c) ==
    /\ session' = [session EXCEPT ![c] = EmptySession]
    /\ response' = Resp(c, "logout", "GET", 302, "/login", "", TRUE)
    /\ UNCHANGED <<pdf, raw, parsed, dbvars, inflight>>

dashboard(c) ==
    /\ response' = IF staff_required(session[c]) # "call"
                   THEN Refused(c, "dashboard", "GET")
                   ELSE Resp(c, "dashboard", "GET", 200, "Dashboard", "", TRUE)
    /\ UNCHANGED <<pdf, raw, parsed, dbvars, session, inflight>>

\* the values of the INSERT of new_invoice, by column
InsertValues(f, items, total, uid, token) ==
    LET base == [invoice_number |-> Strip(f.invoice_number, Spaces),
                 client_name |-> Strip(f.client_name, Spaces),
                 client_address |-> Strip(f.client_address, Spaces),
                 issue_date |-> Strip(f.issue_date, Spaces),
                 due_date |-> Strip(f.due_date, Spaces),
                 items_json |-> json_dumps(items),
                 total_amount |-> total,
                 created_by_user_id |-> <<uid>>,
                 view_token |-> <<token>>]
    IN IF HAS_USER_ID_COL THEN base @@ ("user_id" :> <<uid>>) ELSE base

\* the row an INSERT of these values adds: id is AUTOINCREMENT
InsertedRow(values) ==
    [col \in inv_schema.cols |->
        IF col = "id" THEN Len(invoices) + 1
        ELSE IF col \in DOMAIN values THEN values[col]
        ELSE ColumnDefault(col)]

\* a UNIQUE column of the table already holds the value to insert
UniqueViolated(values) ==
    \E col \in inv_schema.unique \cap DOMAIN values :
        \E i \in DOMAIN invoices : invoices[i][col] = values[col]

\* the required-field check of new_invoice, without the due date
MissingRequiredNoDue(f) ==
    \/ Strip(f.invoice_number, Spaces) = <<>>
    \/ Strip(f.client_name, Spaces) = <<>>
    \/ Strip(f.issue_date, Spaces) = <<>>

\* the required-field check of new_invoice
MissingRequired(f) ==
    \/ Strip(f.invoice_number, Spaces) = <<>>
    \/ Strip(f.client_name, Spaces) = <<>>
    \/ Strip(f.issue_date, Spaces) = <<>>
    \/ Strip(f.due_date, Spaces) = <<>>

new_invoice(c, method, f, token) ==
    /\ method = "POST" => Len(invoices) < MaxInvoices
    /\ IF staff_required(session[c]) # "call"
       THEN /\ response' = Refused(c, "new_invoice", method)
            /\ UNCHANGED invoices
       ELSE IF method = "POST"
       THEN IF MissingRequired(f)
            THEN /\ response' = Resp(c, "new_invoice", method, 200,
                                     "Missing required fields", "", TRUE)
                 /\ UNCHANGED invoices
            ELSE LET res == parse_items(f.items_raw)
                     total == SumLineTotals(res.items)
                     values == InsertValues(f, res.items, total,
                                            session[c].user_id[1], token)
                 IN IF ~res.ok
                    THEN /\ response' = Resp(c, "new_invoice", method, 200,
                                             "Items error", "", TRUE)
                         /\ UNCHANGED invoices
                    ELSE IF UniqueViolated(values)
                    THEN /\ response' = Resp(c, "new_invoice", method, 500,
                                             "IntegrityError", "", TRUE)
                         /\ UNCHANGED invoices
                    ELSE /\ invoices' = Append(invoices, InsertedRow(values))
                         /\ response' = Resp(c, "new_invoice", method, 302,
                                             "/created", "", TRUE)
       ELSE /\ response' = Resp(c, "new_invoice", method, 200,
                                "Create Invoice", "", TRUE)
            /\ UNCHANGED invoices
    /\ UNCHANGED <<pdf, raw, parsed, inv_schema, HAS_USER_ID_COL, users, session,
                   inflight>>

created(c, invoice_id) ==
    /\ response' =
         IF staff_required(session[c]) # "call"
         THEN Refused(c, "created", "GET")
         ELSE IF ById(invoice_id) = <<>>
         THEN Resp(c, "created", "GET", 200, "Invoice not found",
                   "miss", TRUE)
         ELSE Resp(c, "created", "GET", 200, "Invoice Created",
                   "hit", TRUE)
    /\ UNCHANGED <<pdf, raw, parsed, dbvars, session, inflight>>

invoice_pdf(c, invoice_id) ==
    /\ response' =
         IF staff_required(session[c]) # "call"
         THEN Refused(c, "invoice_pdf", "GET")
         ELSE IF ById(invoice_id) = <<>>
         THEN Resp(c, "invoice_pdf", "GET", 404, "Not found",
                   "miss", TRUE)
         ELSE Resp(c, "invoice_pdf", "GET", 200, "application/pdf",
                   "hit", TRUE)
    /\ UNCHANGED <<pdf, raw, parsed, dbvars, session, inflight>>

public_view(c, token) ==
    /\ response' =
         IF ByToken(token) = <<>>
         THEN Resp(c, "public_view", "GET", 404, "Not found", "miss", TRUE)
         ELSE Resp(c, "public_view", "GET", 200, "Invoice", "hit", TRUE)
    /\ UNCHANGED <<pdf, raw, parsed, dbvars, session, inflight>>

public_pdf(c, token) ==
    /\ response' =
         IF ByToken(token) = <<>>
         THEN Resp(c, "public_pdf", "GET", 404, "Not found", "miss", TRUE)
         ELSE Resp(c, "public_pdf", "GET", 200, "application/pdf", "hit",
                   TRUE)
    /\ UNCHANGED <<pdf, raw, parsed, dbvars, session, inflight>>

health(c) ==
    /\ response' = Resp(c, "health", "GET", 200, "ok", "", TRUE)
    /\ UNCHANGED <<pdf, raw, parsed, dbvars, session, inflight>>

\* a form with every required field filled in
GoodForm ==
    [invoice_number |-> <<" ", "x">>, client_name |-> <<"x">>,
     client_address |-> <<>>, issue_date |-> <<"x">>, due_date |-> <<"x">>,
     items_raw |-> <<"a", " ", "5", "\n", "b", " ", "-", "2", ".", "5">>]

\* the forms submitted: the good one with every item text, and the good one
\* with one required field left empty or blank
Forms ==
    {[GoodForm EXCEPT !.items_raw = t] : t \in ItemInputs}
    \cup {[GoodForm EXCEPT !.invoice_number = <<>>],
          [GoodForm EXCEPT !.client_name = <<" ">>],
          [GoodForm EXCEPT !.issue_date = <<>>],
          [GoodForm EXCEPT !.due_date = <<" ">>]}

\* the state once the module is imported: init_db(), migrate_db(), then
\* HAS_USER_ID_COL, on whatever database file was there
Init ==
    /\ raw = <<>>
    /\ parsed = <<>>
    /\ \E f \in DbFiles :
         LET db == migrate_db(init_db(f))
         IN /\ inv_schema = [cols |-> db.inv_cols, unique |-> db.inv_unique]
            /\ HAS_USER_ID_COL = invoices_table_has_column(db, "user_id")
            /\ users = db.users
            /\ invoices = db.invoices
    /\ session = [c \in Clients |-> EmptySession]
    /\ inflight = [c \in Clients |-> <<>>]
    /\ response = Resp("", "", "", 0, "", "", FALSE)
    /\ pdf = <<>>

Next ==
    \/ \E c \in Clients : home(c)
    \/ \E c \in Clients : owner_setup(c, "GET", "", <<>>, <<>>, <<>>)
    \/ \E c \in Clients, f \in SetupForms :
            owner_setup(c, "POST", f.setup_key, f.username, f.password,
                        f.password2)
    \/ \E c \in Clients : owner_setup_insert(c)
    \/ \E c \in Clients : login(c, "GET", <<>>, <<>>)
    \/ \E c \in Clients, u \in {Bob, <<" ">> \o Ann}, p \in {PwGood, PwOther} :
            login(c, "POST", u, p)
    \/ \E c \in Clients : logout(c)
    \/ \E c \in Clients : dashboard(c)
    \/ \E c \in Clients : new_invoice(c, "GET", GoodForm, "")
    \/ \E c \in Clients, f \in Forms, token \in Tokens :
            new_invoice(c, "POST", f, token)
    \/ \E c \in Clients, id \in IdInputs : created(c, id)
    \/ \E c \in Clients, id \in IdInputs : invoice_pdf(c, id)
    \/ \E c \in Clients, token \in TokenInputs : public_view(c, token)
    \/ \E c \in Clients, token \in TokenInputs : public_pdf(c, token)
    \/ \E c \in Clients : health(c)

Spec == Init /\ [][Next]_vars

\* ------------------------------------------------------ owner bootstrap
Owners(us) == {i \in DOMAIN us : us[i].role = "owner"}

\* an owner-setup request by c is taken up in this step, with any form
SetupRequest(c) ==
    \/ owner_setup(c, "GET", "", <<>>, <<>>, <<>>)
    \/ \E f \in SetupForms :
          owner_setup(c, "POST", f.setup_key, f.username, f.password,
                      f.password2)

\* C1: once an owner exists one exists for good, and every owner-setup
\* request taken up from then on, GET or POST and whatever its form, is
\* answered "Owner already exists", adds no user and starts no insert.
C1_SetupDisabledForGood ==
    [][Owners(users) # {} =>
         /\ Owners(users') # {}
         /\ \A c \in Clients :
               SetupRequest(c) =>
                 /\ response'.route = "owner_setup"
                 /\ response'.body = "Owner already exists"
                 /\ users' = users
                 /\ inflight' = inflight]_vars

\* C1 witness: an owner exists and a POST to owner-setup was answered
\* "Owner already exists"
C1_Witness ==
    /\ Owners(users) # {}
    /\ response.route = "owner_setup"
    /\ response.method = "POST"
    /\ response.body = "Owner already exists"

\* C2: at most one owner account exists, whatever the interleaving of the
\* owner-setup requests.
C2_AtMostOneOwner == Cardinality(Owners(users)) <= 1


\* the hashed password a form asks to store
StoredOwner(f) ==
    [username |-> Strip(f.username, Spaces),
     password_hash |-> generate_password_hash(f.password)]

\* a form that owner-setup has to refuse
SetupRefused(f) ==
    \/ f.setup_key # OWNER_SETUP_KEY
    \/ Len(Strip(f.username, Spaces)) < 3
    \/ Len(f.password) < 6
    \/ f.password2 # f.password

\* while no owner exists, a refused form is answered with an error and
\* changes neither the users nor the pending inserts; an accepted form
\* goes on to the insert
C8_Validation ==
    \A c \in Clients, f \in SetupForms :
        (Owners(users) = {}
           /\ owner_setup(c, "POST", f.setup_key, f.username, f.password,
                          f.password2)) =>
            /\ users' = users
            /\ IF SetupRefused(f)
               THEN /\ response'.route = "owner_setup"
                    /\ response'.status = 200
                    /\ response'.body \in {"Wrong setup key", "Bad input"}
                    /\ response'.body = "Wrong setup key"
                         <=> f.setup_key # OWNER_SETUP_KEY
                    /\ inflight' = inflight
               ELSE inflight' = [inflight EXCEPT ![c] = <<StoredOwner(f)>>]

\* the insert of an accepted form adds exactly one user, an owner
InsertAddsOwner(c) ==
    /\ Len(users') = Len(users) + 1
    /\ SubSeq(users', 1, Len(users)) = users
    /\ users'[Len(users')].role = "owner"
    /\ users'[Len(users')].username = inflight[c][1].username

Created == {i \in DOMAIN invoices : invoices[i].view_token # <<>>}

\* C3: no two stored invoices carry the same view_token.
C3_UniqueTokens ==
    \A i \in Created, j \in Created :
        i # j => invoices[i].view_token # invoices[j].view_token

\* the items of a stored invoice, as invoice_pdf and public_pdf load them
StoredItems(row) == json_loads(row_get(row, "items_json", json_dumps(<<>>)))

StaffRequest(c) ==
    /\ response'.client = c
    /\ \/ response'.route = "dashboard" /\ dashboard(c)
       \/ /\ response'.route = "new_invoice"
          /\ \/ new_invoice(c, "GET", GoodForm, "")
             \/ \E f \in Forms, token \in Tokens :
                   new_invoice(c, "POST", f, token)
       \/ response'.route = "created" /\ \E id \in IdInputs : created(c, id)
       \/ /\ response'.route = "invoice_pdf"
          /\ \E id \in IdInputs : invoice_pdf(c, id)

StaffRoles == {"owner", "employee"}

\* C5: a staff route asked for without a user id in the session answers
\* with the redirect to login, one asked for with a user id and a role
\* outside owner/employee answers 403; either way the handler does not run
\* and the store is unchanged; and the invoices change only on a request
\* whose session is a staff session.
C5_StaffOnly ==
    [][/\ \A c \in Clients :
            StaffRequest(c) =>
              /\ session[c].user_id = <<>> =>
                   /\ response'.status = 302 /\ response'.body = "/login"
                   /\ ~response'.ran
                   /\ UNCHANGED <<users, invoices>>
              /\ (session[c].user_id # <<>>
                    /\ session[c].role \notin StaffRoles) =>
                   /\ response'.status = 403
                   /\ ~response'.ran
                   /\ UNCHANGED <<users, invoices>>
       /\ invoices' # invoices =>
            /\ session[response'.client].user_id # <<>>
            /\ session[response'.client].role \in StaffRoles]_vars

\* C5 witness: a submission to new_invoice by a logged-in user whose role is
\* no staff role was answered 403
C5_Witness ==
    /\ response.route = "new_invoice"
    /\ response.method = "POST"
    /\ response.status = 403
    /\ ~response.ran
    /\ session[response.client].user_id # <<>>
    /\ session[response.client].role \notin StaffRoles

\* C6: every lookup of an invoice that finds none answers 404.
C6_UnknownIs404 ==
    response.found = "miss" =>
        response.status = 404 /\ response.body = "Not found"

\* a form lacking a required field, or holding no item line
Unacceptable(f) ==
    \/ \E k \in {"invoice_number", "client_name", "issue_date", "due_date"} :
          Ink(f[k]) = {}
    \/ LineStarts(f.items_raw) = {}

\* a submission to new_invoice was answered as a success in this step
Succeeded ==
    /\ response'.route = "new_invoice"
    /\ response'.method = "POST"
    /\ response'.status = 302 /\ response'.ran

\* C7: the invoices change only by a successful submission to new_invoice,
\* which appends exactly one row and leaves the stored rows as they are; a
\* submission lacking a required field or an item line is no success and
\* changes nothing.
C7_AppendOnly ==
    [][/\ invoices' # invoices =>
            /\ Len(invoices') = Len(invoices) + 1
            /\ SubSeq(invoices', 1, Len(invoices)) = invoices
            /\ Succeeded
       /\ (invoices' # invoices \/ Succeeded) =>
            \A f \in Forms, token \in Tokens :
                new_invoice(response'.client, "POST", f, token) =>
                  /\ ~Unacceptable(f)
                  /\ Len(invoices') = Len(invoices) + 1]_vars

\* C7 witness: with an invoice stored, a submission lacking a required field
\* was refused
C7_Witness ==
    /\ Created # {}
    /\ response.route = "new_invoice"
    /\ response.body = "Missing required fields"

\* ------------------------------------------------- the parser on its own
ParseInit ==
    /\ raw \in Texts
    /\ parsed = <<>>
    /\ inv_schema = [cols |-> {}, unique |-> {}]
    /\ HAS_USER_ID_COL = FALSE
    /\ users = <<>>
    /\ invoices = <<>>
    /\ session = <<>>
    /\ inflight = <<>>
    /\ response = <<>>
    /\ pdf = <<>>

\* one call parse_items(raw)
CallParseItems ==
    /\ parsed = <<>>
    /\ parsed' = <<parse_items(raw)>>
    /\ UNCHANGED <<raw, pdf>>
    /\ UNCHANGED webvars

ParseNext == CallParseItems

ParseSpec == ParseInit /\ [][ParseNext]_vars

\* ------------------------------------------------------ parser claims
\* C9: parse_items fails exactly when the text has no non-blank line;
\* otherwise it returns one item per non-blank line, the i-th item being the
\* item of the i-th non-blank line, with quantity 1.
C9_ParserLength ==
    parsed # <<>> =>
        LET res == parsed[1]
            lines == NonBlankLines(raw)
        IN /\ res.ok <=> LineStarts(raw) # {}
           /\ ~res.ok => res.items = <<>> /\ res.error # ""
           /\ res.ok =>
                /\ Len(res.items) = Cardinality(LineStarts(raw))
                /\ \A k \in 1..Len(res.items) :
                      /\ res.items[k] = ParseLine(lines[k])
                      /\ res.items[k].qty = 1

\* C9 witness: a text with blank and several non-blank lines has been parsed
C9_Witness ==
    /\ parsed # <<>>
    /\ parsed[1].ok
    /\ Len(parsed[1].items) = 2
    /\ Len(SplitLines(raw)) = 3
    /\ parsed[1].items[1] # parsed[1].items[2]

\* the lines of raw that hold a numeric match, with the item parsed for each
MatchedLines ==
    {k \in 1..Len(NonBlankLines(raw)) : FindAll(NonBlankLines(raw)[k]) # <<>>}

LastMatch(line) == FindAll(line)[Len(FindAll(line))]

\* C10 as stated: the price comes from the last match and the description is
\* the line with the FIRST occurrence of the matched text removed.
C10_FirstOccurrence ==
    (parsed # <<>> /\ parsed[1].ok) =>
        \A k \in MatchedLines :
            LET line == NonBlankLines(raw)[k]
                m == LastMatch(line)
            IN /\ parsed[1].items[k].unit_price = PriceOf(m)
               /\ parsed[1].items[k].desc
                    = DescWithout(line, m, MinOf(Occurrences(line, m)))

\* C10 amended: the price comes from the last match and the description is
\* the line with the LAST occurrence of the matched text removed, trimmed of
\* space, hyphen, colon and pipe, or the whole line when nothing is left.
C10_LastOccurrence ==
    (parsed # <<>> /\ parsed[1].ok) =>
        \A k \in MatchedLines :
            LET line == NonBlankLines(raw)[k]
                m == LastMatch(line)
            IN /\ parsed[1].items[k].unit_price = PriceOf(m)
               /\ parsed[1].items[k].desc
                    = DescWithout(line, m, MaxOf(Occurrences(line, m)))

\* C10 witness: a parsed line whose matched text occurs twice, where removing
\* the first and removing the last occurrence give different descriptions
C10_Witness ==
    /\ parsed # <<>>
    /\ parsed[1].ok
    /\ \E k \in MatchedLines :
          LET line == NonBlankLines(raw)[k]
              m == LastMatch(line)
          IN /\ Cardinality(Occurrences(line, m)) >= 2
             /\ DescWithout(line, m, MinOf(Occurrences(line, m)))
                  # DescWithout(line, m, MaxOf(Occurrences(line, m)))
             /\ parsed[1].items[k].unit_price > 0

\* ------------------------------------------------------- PDF rendering
\* most items of the invoice rendered in PdfSpec
MaxItems == 42
\* most lines of the bill-to address of the invoice rendered in PdfSpec
MaxAddrLines == 33

\* page_w, page_h = letter: the height of a US Letter page, in points
page_h == 792

\* the height reserved for the footer at the bottom of a page
FOOTER_SPACE == 160

\* the baseline of the brand image in the footer
footer_y == 80

\* one draw call on the canvas: what is drawn, on which page, at which height
Draw(kind, page, y) == [kind |-> kind, page |-> page, y |-> y]

\* an address text of n lines
RECURSIVE AddressOf(_)
AddressOf(n) ==
    IF n = 0 THEN <<>>
    ELSE IF n = 1 THEN <<"x">>
    ELSE AddressOf(n - 1) \o <<"\n", "x">>

\* the invoice rows rendered: with or without an e-mail, with every address
Invs ==
    {[client_name |-> <<"x">>, client_email |-> e, client_address |-> AddressOf(n)] :
        e \in {<<>>, <<"e">>}, n \in 0..MaxAddrLines}

\* the item lists rendered: n items of 1.0 each, as parse_items builds them
ItemLists ==
    {[k \in 1..n |-> [desc |-> <<"a">>, qty |-> 1, unit_price |-> Pow10(FracDigits)]] :
        n \in 0..MaxItems}

\* the part of invoice_pdf_bytes before the item loop: the title, the invoice
\* number and dates, the bill-to block, the table header and its rule, all
\* on page 1; y is the cursor the item loop starts with
DrawHeader(inv) ==
    LET y_title == page_h - 60
        y_number == y_title - 26
        y_dates == y_number - 14
        y_bill == y_dates - 22
        y_name == y_bill - 14
        client_email == row_get(inv, "client_email", <<>>)
        y_email == IF client_email # <<>> THEN y_name - 14 ELSE y_name
        client_address == row_get(inv, "client_address", <<>>)
        lines == IF client_address # <<>> THEN SplitLines(client_address)
                 ELSE <<>>
        y_addr == y_email - 14 * Len(lines)
        y_head == y_addr - 24
        y_rule == y_head - 10
    IN [ops |-> <<Draw("title", 1, y_title), Draw("number", 1, y_number),
                  Draw("dates", 1, y_dates), Draw("bill_to", 1, y_bill),
                  Draw("client_name", 1, y_name)>>
                \o (IF client_email # <<>>
                    THEN <<Draw("client_email", 1, y_email)>> ELSE <<>>)
                \o [j \in 1..Len(lines) |->
                       Draw("address", 1, y_email - 14 * j)]
                \o <<Draw("item_header", 1, y_head),
                     Draw("rule", 1, y_rule)>>,
        y |-> y_rule - 16]

\* a page check that never asks for a new page
needs_new_page_never(y) == FALSE

\* if y < FOOTER_SPACE
needs_new_page(y) == y < FOOTER_SPACE

\* a showPage() that stays on the page it was on
show_page_stays(page) == page

\* c.showPage(): the current page is finished, drawing goes on on the next
show_page(page) == page + 1

\* a TOTAL line put through the page check of the item rows
total_position_checked(page, y) ==
    IF y - 8 < FOOTER_SPACE THEN [page |-> page + 1, y |-> page_h - 60]
    ELSE [page |-> page, y |-> y - 8]

\* y -= 8, then the TOTAL line is drawn where the cursor is
total_position(page, y) == [page |-> page, y |-> y - 8]

\* the state of a call invoice_pdf_bytes(inv, items) on entry
PdfCall(inv, items) ==
    [pc |-> "call", inv |-> inv, items |-> items, k |-> 1, y |-> 0,
     page |-> 1, total |-> 0, logo |-> "unread", ops |-> <<>>, pages |-> 0]

\* lines 194-242: the canvas is opened and everything above the item rows
\* is drawn
pdf_begin ==
    /\ pdf.pc = "call"
    /\ pdf' = [pdf EXCEPT !.pc = "rows",
                          !.ops = DrawHeader(pdf.inv).ops,
                          !.y = DrawHeader(pdf.inv).y,
                          !.total = 0]
    /\ UNCHANGED <<raw, parsed>>
    /\ UNCHANGED webvars

\* one turn of the loop over the items
pdf_row ==
    /\ pdf.pc = "rows"
    /\ pdf.k <= Len(pdf.items)
    /\ LET it == pdf.items[pdf.k]
           line_total == it.qty * it.unit_price
           brk == needs_new_page(pdf.y)
           page == IF brk THEN show_page(pdf.page) ELSE pdf.page
           y == IF brk THEN page_h - 60 ELSE pdf.y
       IN pdf' = [pdf EXCEPT !.total = pdf.total + line_total,
                             !.page = page,
                             !.ops = Append(pdf.ops, Draw("row", page, y)),
                             !.y = y - 14,
                             !.k = pdf.k + 1]
    /\ UNCHANGED <<raw, parsed>>
    /\ UNCHANGED webvars

\* the TOTAL line, once the loop is over
pdf_total_line ==
    /\ pdf.pc = "rows"
    /\ pdf.k > Len(pdf.items)
    /\ LET at == total_position(pdf.page, pdf.y)
       IN pdf' = [pdf EXCEPT !.pc = "footer",
                             !.y = pdf.y - 8,
                             !.page = at.page,
                             !.ops = Append(pdf.ops,
                                            Draw("total", at.page, at.y))]
    /\ UNCHANGED <<raw, parsed>>
    /\ UNCHANGED webvars

\* the footer on the current page: the separator, the brand image unless
\* ImageReader(LOGO_FILE) or drawImage raises, the caption, the website
\* and the link over it
pdf_footer ==
    /\ pdf.pc = "footer"
    /\ \E logo_ok \in BOOLEAN :
         pdf' = [pdf EXCEPT
                   !.pc = "save",
                   !.logo = IF logo_ok THEN "drawn" ELSE "failed",
                   !.ops = pdf.ops
                       \o <<Draw("separator", pdf.page, footer_y + 75)>>
                       \o (IF logo_ok
                           THEN <<Draw("image", pdf.page, footer_y)>>
                           ELSE <<>>)
                       \o <<Draw("caption", pdf.page, footer_y - 10),
                            Draw("website", pdf.page, footer_y - 25),
                            Draw("link", pdf.page, footer_y - 30)>>]
    /\ UNCHANGED <<raw, parsed>>
    /\ UNCHANGED webvars

\* c.save(): the current page, which holds the footer, is the last page
pdf_save ==
    /\ pdf.pc = "save"
    /\ pdf' = [pdf EXCEPT !.pc = "done", !.pages = pdf.page]
    /\ UNCHANGED <<raw, parsed>>
    /\ UNCHANGED webvars

\* one call of invoice_pdf_bytes, on every invoice and item list
PdfInit ==
    /\ raw = <<>>
    /\ parsed = <<>>
    /\ inv_schema = [cols |-> {}, unique |-> {}]
    /\ HAS_USER_ID_COL = FALSE
    /\ users = <<>>
    /\ invoices = <<>>
    /\ session = <<>>
    /\ inflight = <<>>
    /\ response = <<>>
    /\ pdf \in {PdfCall(inv, items) : inv \in Invs, items \in ItemLists}

PdfNext ==
    \/ pdf_begin
    \/ pdf_row
    \/ pdf_total_line
    \/ pdf_footer
    \/ pdf_save

PdfSpec == PdfInit /\ [][PdfNext]_vars

\* ---------------------------------------------------- claims: pagination
\* the draw calls of one kind, in the order they were made
OpsOf(kind) == SelectSeq(pdf.ops, LAMBDA op : op.kind = kind)

\* the item rows drawn so far, in order
RowOps == OpsOf("row")

\* C11: every item row is drawn with the cursor at or above the footer zone
\* (y >= 160) and at or below the top margin; a row whose cursor would be
\* below 160 is drawn on the next page with the cursor reset to the top
\* margin, every other row 14 below the row before it on the same page.
C11_RowsClearOfFooter ==
    /\ \A i \in DOMAIN RowOps :
         /\ RowOps[i].y >= FOOTER_SPACE
         /\ RowOps[i].y <= page_h - 60
         /\ RowOps[i].page >= 1
    /\ RowOps # <<>> =>
         LET first == RowOps[1]
             y0 == DrawHeader(pdf.inv).y
         IN IF y0 < FOOTER_SPACE
            THEN first.page = 2 /\ first.y = page_h - 60
            ELSE first.page = 1 /\ first.y = y0
    /\ \A i \in DOMAIN RowOps :
         i > 1 =>
           LET before == RowOps[i - 1]
               row == RowOps[i]
           IN IF before.y - 14 < FOOTER_SPACE
              THEN row.page = before.page + 1 /\ row.y = page_h - 60
              ELSE row.page = before.page /\ row.y = before.y - 14

\* a document is saved in which a row ran into the footer zone and was moved
\* to the top of the next page, and in which every item was drawn
C11_Witness ==
    /\ pdf.pc = "done"
    /\ Len(RowOps) = Len(pdf.items)
    /\ \E i \in DOMAIN RowOps :
         /\ i > 1
         /\ RowOps[i - 1].y - 14 < FOOTER_SPACE
         /\ RowOps[i].page = RowOps[i - 1].page + 1
         /\ RowOps[i].y = page_h - 60

\* the parts of the footer that are drawn whatever happens to the image
FooterKinds == {"separator", "caption", "website", "link"}

\* the N item rows all fit above the footer zone on the first page
RowsFitFirstPage ==
    \/ pdf.items = <<>>
    \/ DrawHeader(pdf.inv).y - 14 * (Len(pdf.items) - 1) >= FOOTER_SPACE

\* no draw call is on a page after the last page of the saved document
LastPageIsLast == \A i \in DOMAIN pdf.ops : pdf.ops[i].page <= pdf.pages

\* C12 as stated: the footer (separator, brand image, caption, link) is drawn
\* exactly once, on the last page and on no earlier page, and the document
\* has more than one page whenever the item rows do not all fit above the
\* footer zone on the first page.
C12_FooterOnceOnLastPage ==
    /\ \A kind \in FooterKinds \cup {"image"} : Len(OpsOf(kind)) <= 1
    /\ pdf.pc = "done" =>
         /\ LastPageIsLast
         /\ \A kind \in FooterKinds \cup {"image"} :
              /\ Len(OpsOf(kind)) = 1
              /\ OpsOf(kind)[1].page = pdf.pages
         /\ ~RowsFitFirstPage => pdf.pages > 1

\* C12, amended: the separator, the caption and the link are drawn exactly
\* once, and the brand image exactly once when it could be read and drawn and
\* not at all when it could not, all on the last page and on no earlier page;
\* the document has more than one page whenever the item rows do not all fit
\* above the footer zone on the first page.
C12_FooterOnceImageIfRead ==
    /\ \A kind \in FooterKinds \cup {"image"} : Len(OpsOf(kind)) <= 1
    /\ pdf.pc = "done" =>
         /\ LastPageIsLast
         /\ \A kind \in FooterKinds :
              /\ Len(OpsOf(kind)) = 1
              /\ OpsOf(kind)[1].page = pdf.pages
         /\ Len(OpsOf("image")) = (IF pdf.logo = "drawn" THEN 1 ELSE 0)
         /\ \A i \in DOMAIN OpsOf("image") :
              OpsOf("image")[i].page = pdf.pages
         /\ ~RowsFitFirstPage => pdf.pages > 1

\* a saved document whose rows overflowed the first page: it has several
\* pages, and the whole footer, image included, is on the last one
C12_Witness ==
    /\ pdf.pc = "done"
    /\ ~RowsFitFirstPage
    /\ pdf.pages > 1
    /\ pdf.logo = "drawn"
    /\ \E i \in DOMAIN RowOps : RowOps[i].page < pdf.pages
    /\ \A kind \in FooterKinds \cup {"image"} :
         /\ Len(OpsOf(kind)) = 1
         /\ OpsOf(kind)[1].page = pdf.pages

\* the TOTAL lines drawn so far
TotalOps == OpsOf("total")

\* C13: with at least one item the TOTAL line is drawn once, on the page of
\* the last item row, 22 below that row, hence at 138 or higher: on the page,
\* and never on a page that holds no item row.
C13_TotalBelowLastRow ==
    /\ pdf.pc \in {"call", "rows"} => TotalOps = <<>>
    /\ (pdf.items # <<>> /\ pdf.pc \in {"footer", "save", "done"}) =>
         /\ Len(TotalOps) = 1
         /\ Len(RowOps) = Len(pdf.items)
         /\ LET last == RowOps[Len(RowOps)]
                tot == TotalOps[1]
            IN /\ tot.page = last.page
               /\ tot.y = last.y - 22
               /\ tot.y >= FOOTER_SPACE - 14 - 8
               /\ tot.y > 0
               /\ tot.y < page_h

\* a saved document with items whose TOTAL line is below the top of the
\* footer zone, on the page of its last row
C13_Witness ==
    /\ pdf.pc = "done"
    /\ pdf.items # <<>>
    /\ Len(TotalOps) = 1
    /\ TotalOps[1].y < FOOTER_SPACE
    /\ TotalOps[1].page = RowOps[Len(RowOps)].page
    /\ TotalOps[1].y = RowOps[Len(RowOps)].y - 22

====
